---- MODULE Spec2Model ----
(***************************************************************************)
(* Model of the code-graph extraction engine of code_rag.                  *)
(*                                                                         *)
(*   - the staging parser, src/src/service/python_code_parser.py           *)
(*     (PythonCodeParser with self.nodes / self.relationships /            *)
(*     self.processed_nodes), specification Spec;                          *)
(*   - the Neo4j adapter, signature_based_rag/src/service/                 *)
(*     graph_services.py (GraphDB), specifications SpecDB and SpecConc;    *)
(*   - the streaming parser that writes through GraphDB,                   *)
(*     signature_based_rag/src/service/python_code_parser.py,              *)
(*     specification SpecSig.                                              *)
(*                                                                         *)
(* Python str values are TLA+ strings; Len, \o and SubSeq act on them      *)
(* character by character, so split, strip, capitalize and the f-strings   *)
(* that build ids are computed, not assumed.                               *)
(***************************************************************************)
EXTENDS Integers, Sequences, FiniteSets, TLC

VARIABLES
    nodes,            \* PythonCodeParser.nodes          (list of node dicts)
    relationships,    \* PythonCodeParser.relationships  (list of relationship dicts)
    processed_nodes,  \* PythonCodeParser.processed_nodes (set of ids)
    ret,              \* what the last parse_file call returned
    held,             \* a result of an earlier parse_file call the caller kept
    last,             \* the last call made on the parser
    store,            \* the Neo4j graph behind GraphDB: nodes and edges
    sig,              \* signature_based_rag PythonCodeParser: processed_nodes, imports
    workers,          \* concurrent GraphDB callers: position and what each has read
    hist              \* record of the calls made so far on the store

vars == <<nodes, relationships, processed_nodes, ret, held, last, store, sig, workers, hist>>

None == "None"

\* one statement after another: v is computed once, then F reads it
Then(v, F(_)) == CHOOSE r \in {F(x) : x \in {v}} : TRUE

(***************************************************************************)
(* Python str methods.                                                     *)
(***************************************************************************)
Char(s, i) == SubSeq(s, i, i)

RECURSIVE LastIndexOf(_, _, _)
\* the largest i <= n with s[i] = c, or 0
LastIndexOf(s, c, n) ==
    IF n = 0 THEN 0
    ELSE IF Char(s, n) = c THEN n
    ELSE LastIndexOf(s, c, n - 1)

RECURSIVE FirstIndexOf(_, _, _)
\* the smallest i >= n with s[i] = c, or 0
FirstIndexOf(s, c, n) ==
    IF n > Len(s) THEN 0
    ELSE IF Char(s, n) = c THEN n
    ELSE FirstIndexOf(s, c, n + 1)

\* c in s
Contains(s, c) == FirstIndexOf(s, c, 1) # 0

\* s.split(c)[-1]
SplitLast(s, c) == SubSeq(s, LastIndexOf(s, c, Len(s)) + 1, Len(s))

\* s.split(c)[0]
SplitFirst(s, c) ==
    LET i == FirstIndexOf(s, c, 1)
    IN  IF i = 0 THEN s ELSE SubSeq(s, 1, i - 1)

\* Path(p).name
PathName(p) == SplitLast(p, "/")

Whitespace == {" ", "\n", "\t", "\r"}

RECURSIVE LStrip(_)
LStrip(s) ==
    IF Len(s) > 0 /\ Char(s, 1) \in Whitespace THEN LStrip(SubSeq(s, 2, Len(s))) ELSE s

RECURSIVE RStrip(_)
RStrip(s) ==
    IF Len(s) > 0 /\ Char(s, Len(s)) \in Whitespace
    THEN RStrip(SubSeq(s, 1, Len(s) - 1)) ELSE s

\* s.strip()
Strip(s) == LStrip(RStrip(s))

Lowers == "abcdefghijklmnopqrstuvwxyz"
Uppers == "ABCDEFGHIJKLMNOPQRSTUVWXYZ"

ToUpper(c) ==
    LET i == FirstIndexOf(Lowers, c, 1) IN IF i = 0 THEN c ELSE Char(Uppers, i)

ToLower(c) ==
    LET i == FirstIndexOf(Uppers, c, 1) IN IF i = 0 THEN c ELSE Char(Lowers, i)

RECURSIVE LowerAll(_)
LowerAll(s) ==
    IF Len(s) = 0 THEN s ELSE ToLower(Char(s, 1)) \o LowerAll(SubSeq(s, 2, Len(s)))

\* s.capitalize()
Capitalize(s) ==
    IF Len(s) = 0 THEN s
    ELSE ToUpper(Char(s, 1)) \o LowerAll(SubSeq(s, 2, Len(s)))

RECURSIVE JoinWith(_, _)
\* sep.join(parts)
JoinWith(sep, parts) ==
    IF Len(parts) = 0 THEN ""
    ELSE IF Len(parts) = 1 THEN parts[1]
    ELSE parts[1] \o sep \o JoinWith(sep, Tail(parts))

(***************************************************************************)
(* The syntax tree tree-sitter hands to the walker: every node has a type, *)
(* the source text it spans, its children in order, and the rows of its    *)
(* first and last line (start_point[0], end_point[0]).  The constructors   *)
(* follow the shapes of the tree-sitter-python grammar.                    *)
(***************************************************************************)
Node(type, text, children, row, end_row) ==
    [type |-> type, text |-> text, children |-> children, row |-> row, end_row |-> end_row]

Tok(type, text, row) == Node(type, text, <<>>, row, row)

TextsOf(children) == [i \in 1..Len(children) |-> children[i].text]

\* an inner node: spans its children, text joined by sep
Mk(type, children, sep) ==
    Node(type, JoinWith(sep, TextsOf(children)), children,
         children[1].row, children[Len(children)].end_row)

RECURSIVE Commas(_, _)
\* the children of a comma-separated list
Commas(items, row) ==
    IF Len(items) = 0 THEN <<>>
    ELSE IF Len(items) = 1 THEN items
    ELSE <<items[1], Tok(",", ",", row)>> \o Commas(Tail(items), row)

Ident(name, row) == Tok("identifier", name, row)

Idents(names, row) == [i \in 1..Len(names) |-> Ident(names[i], row)]

TypedParameter(name, type, row) ==
    Mk("typed_parameter",
       <<Ident(name, row), Tok(":", ":", row), Mk("type", <<Ident(type, row)>>, "")>>, " ")

DefaultParameter(name, value, row) ==
    Mk("default_parameter",
       <<Ident(name, row), Tok("=", "=", row), Tok("integer", value, row)>>, "")

Parameters(params, row) ==
    Mk("parameters", <<Tok("(", "(", row)>> \o Commas(params, row) \o <<Tok(")", ")", row)>>, "")

ArgumentList(args, row) ==
    Mk("argument_list", <<Tok("(", "(", row)>> \o Commas(args, row) \o <<Tok(")", ")", row)>>, "")

Block(stmts) == Mk("block", stmts, "\n")

PassStmt(row) == Mk("pass_statement", <<Tok("pass", "pass", row)>>, "")

\* obj.attr
Attribute(obj, attr, row) ==
    Mk("attribute", <<obj, Tok(".", ".", row), Ident(attr, row)>>, "")

\* callee(args)
Call(callee, args, row) == Mk("call", <<callee, ArgumentList(args, row)>>, "")

ExprStmt(expr) == Mk("expression_statement", <<expr>>, "")

\* name()  as a statement
CallStmt(name, row) == ExprStmt(Call(Ident(name, row), <<>>, row))

\* obj.name()  as a statement
AttrCallStmt(obj, name, row) ==
    ExprStmt(Call(Attribute(Ident(obj, row), name, row), <<>>, row))

\* name()()  as a statement: the callee of the outer call is itself a call
CallCallStmt(name, row) ==
    ExprStmt(Call(Call(Ident(name, row), <<>>, row), <<>>, row))

\* class name(bases): body      (name = None: no identifier child)
ClassDef(name, bases, body, row) ==
    Mk("class_definition",
       <<Tok("class", "class", row)>>
       \o (IF name = None THEN <<>> ELSE <<Ident(name, row)>>)
       \o (IF Len(bases) = 0 THEN <<>> ELSE <<ArgumentList(Idents(bases, row), row)>>)
       \o <<Tok(":", ":", row), Block(body)>>, " ")

\* [async] def name(params): body      (name = None: no identifier child)
FuncDef(async, name, params, body, row) ==
    Mk("function_definition",
       (IF async THEN <<Tok("async", "async", row)>> ELSE <<>>)
       \o <<Tok("def", "def", row)>>
       \o (IF name = None THEN <<>> ELSE <<Ident(name, row)>>)
       \o <<Parameters(params, row), Tok(":", ":", row), Block(body)>>, " ")

\* import a, b
ImportStmt(names, row) ==
    Mk("import_statement",
       <<Tok("import", "import", row)>>
       \o Commas([i \in 1..Len(names) |->
                    Mk("dotted_name", <<Ident(names[i], row)>>, "")], row), " ")

\* from module import a, b
ImportFromStmt(module, names, row) ==
    Mk("import_from_statement",
       <<Tok("from", "from", row), Mk("dotted_name", <<Ident(module, row)>>, ""),
         Tok("import", "import", row)>>
       \o Commas([i \in 1..Len(names) |->
                    Mk("dotted_name", <<Ident(names[i], row)>>, "")], row), " ")

\* what the parser leaves where the text fits no rule
ErrorNode(children) == Mk("ERROR", children, " ")

Module(stmts) == Mk("module", stmts, "\n")

RECURSIVE HasError(_)
RECURSIVE AnyHasError(_, _)
\* Node.has_error: the node is or contains an ERROR node
HasError(node) ==
    \/ node.type = "ERROR"
    \/ /\ node.type \in {"class_definition", "function_definition"}
       /\ \A i \in 1..Len(node.children) : node.children[i].type # "identifier"
    \/ AnyHasError(node.children, 1)

AnyHasError(children, i) ==
    IF i > Len(children) THEN FALSE
    ELSE HasError(children[i]) \/ AnyHasError(children, i + 1)

(***************************************************************************)
(* src/src/service/python_code_parser.py: the staging PythonCodeParser.    *)
(* The helpers below take and return the parser's fields as a record       *)
(* st = [nodes, relationships, processed_nodes].                           *)
(***************************************************************************)
ChildrenOfType(node, type) == SelectSeq(node.children, LAMBDA c : c.type = type)

RECURSIVE GrandChildrenOfType(_, _)
\* the children of the given type of every node of a sequence, in order
GrandChildrenOfType(parents, type) ==
    IF Len(parents) = 0 THEN <<>>
    ELSE ChildrenOfType(parents[1], type) \o GrandChildrenOfType(Tail(parents), type)

\* "x or ''": None and the empty string are both falsy
Truthy(v) == v # None /\ v # ""

\* _extract_identifier
ExtractIdentifier(node) ==
    LET ids == ChildrenOfType(node, "identifier")
    IN  IF Len(ids) = 0 THEN None ELSE ids[1].text

Quotes == {"\"", "'"}

RECURSIVE StripQuotes(_)
\* text.strip('"\'')
StripQuotes(s) ==
    IF Len(s) > 0 /\ Char(s, 1) \in Quotes THEN StripQuotes(SubSeq(s, 2, Len(s)))
    ELSE IF Len(s) > 0 /\ Char(s, Len(s)) \in Quotes THEN StripQuotes(SubSeq(s, 1, Len(s) - 1))
    ELSE s

\* _extract_docstring
ExtractDocstring(node) ==
    LET blocks  == ChildrenOfType(node, "block")
        stmts   == GrandChildrenOfType(blocks, "expression_statement")
        strings == GrandChildrenOfType(stmts, "string")
    IN  IF Len(strings) = 0 THEN None ELSE Strip(StripQuotes(strings[1].text))

\* _extract_base_classes
ExtractBaseClasses(node) ==
    TextsOf(GrandChildrenOfType(ChildrenOfType(node, "argument_list"), "identifier"))

RECURSIVE ParamNames(_, _)
\* the loop over the children of one parameters node: an identifier gives
\* its text, a parameter of type `wrapped` the text of its first identifier
ParamNames(params, wrapped) ==
    IF Len(params) = 0 THEN <<>>
    ELSE LET p == params[1]
             inner == ChildrenOfType(p, "identifier")
             here == IF p.type = "identifier" THEN <<p.text>>
                     ELSE IF p.type = wrapped /\ Len(inner) > 0 THEN <<inner[1].text>>
                     ELSE <<>>
         IN  here \o ParamNames(Tail(params), wrapped)

RECURSIVE ParamsOfAll(_, _)
ParamsOfAll(lists, wrapped) ==
    IF Len(lists) = 0 THEN <<>>
    ELSE ParamNames(lists[1].children, wrapped) \o ParamsOfAll(Tail(lists), wrapped)

\* _extract_parameters of the staging parser: identifiers and default_parameter
ExtractParameters(node) ==
    ParamsOfAll(ChildrenOfType(node, "parameters"), "default_parameter")

RECURSIVE ImportItemsOfChildren(_)
ImportItemsOfChildren(children) ==
    IF Len(children) = 0 THEN <<>>
    ELSE LET c == children[1]
             inner == ChildrenOfType(c, "identifier")
             here == IF c.type = "identifier" THEN <<c.text>>
                     ELSE IF c.type = "aliased_import" /\ Len(inner) > 0 THEN <<inner[1].text>>
                     ELSE <<>>
         IN  here \o ImportItemsOfChildren(Tail(children))

\* _extract_import_items
ExtractImportItems(node) ==
    IF node.type = "identifier" THEN <<node.text>>
    ELSE ImportItemsOfChildren(node.children)

RECURSIVE ImportItemsOfAll(_)
ImportItemsOfAll(ns) ==
    IF Len(ns) = 0 THEN <<>>
    ELSE ExtractImportItems(ns[1]) \o ImportItemsOfAll(Tail(ns))

\* _extract_method_name that splits an attribute at its first "."
ExtractMethodName_FirstSegment(node) ==
    IF node.type = "identifier" THEN node.text
    ELSE IF node.type = "attribute" /\ Contains(node.text, ".") THEN SplitFirst(node.text, ".")
    ELSE None

\* _extract_method_name
ExtractMethodName(node) ==
    IF node.type = "identifier" THEN node.text
    ELSE IF node.type = "attribute" /\ Contains(node.text, ".") THEN SplitLast(node.text, ".")
    ELSE None

\* _add_relationship that stages CALLED_IN relationships only
AddRelationship_CallsOnly(st, start_id, end_id, label, properties) ==
    IF label # "CALLED_IN" THEN st
    ELSE [st EXCEPT !.relationships =
             Append(@, [type |-> "relationship", start |-> [id |-> start_id],
                        end |-> [id |-> end_id], label |-> label,
                        properties |-> properties])]

\* the key _add_relationship compares: f"{start_id}-{label}-{end_id}"
RelKey(start_id, label, end_id) == start_id \o "-" \o label \o "-" \o end_id

\* _add_relationship
AddRelationship(st, start_id, end_id, label, properties) ==
    LET relationship == [type |-> "relationship", start |-> [id |-> start_id],
                         end |-> [id |-> end_id], label |-> label,
                         properties |-> properties]
        rel_key == RelKey(start_id, label, end_id)
    IN  IF \E i \in 1..Len(st.relationships) :
               rel_key = RelKey(st.relationships[i].start.id, st.relationships[i].label,
                                st.relationships[i].end.id)
        THEN st
        ELSE [st EXCEPT !.relationships = Append(@, relationship)]

EmptyProps == <<>>

\* _handle_module
HandleModule(st, node, file_path, file_name) ==
    LET node_id == "file:" \o file_name
    IN  IF node_id \notin st.processed_nodes
        THEN [st EXCEPT
                !.nodes = Append(@, [type |-> "node", id |-> node_id, labels |-> <<"File">>,
                                     properties |-> [name |-> file_name, description |-> "",
                                                     file_path |-> file_path,
                                                     size |-> Len(node.text)]]),
                !.processed_nodes = @ \cup {node_id}]
        ELSE st

\* _handle_class_definition without the "node_id not in self.processed_nodes" test
HandleClassDefinition_NoProcessedTest(st, node, file_path, parent_id) ==
    LET class_name == ExtractIdentifier(node)
        node_id == "class:" \o class_name
        docstring == ExtractDocstring(node)
        staged == [st EXCEPT
                     !.nodes = Append(@, [type |-> "node", id |-> node_id,
                                          labels |-> <<"Class">>,
                                          properties |->
                                            [name |-> class_name,
                                             description |-> IF Truthy(docstring)
                                                             THEN docstring ELSE "",
                                             file_path |-> file_path,
                                             base_classes |-> ExtractBaseClasses(node),
                                             line_start |-> node.row + 1,
                                             line_end |-> node.end_row + 1]]),
                     !.processed_nodes = @ \cup {node_id}]
        parent == IF Truthy(parent_id) THEN parent_id ELSE "file:" \o PathName(file_path)
    IN  IF ~Truthy(class_name) THEN [st |-> st, id |-> None]
        ELSE [st |-> AddRelationship(staged, node_id, parent, "DEFINED_IN", EmptyProps),
              id |-> node_id]

\* _handle_class_definition: the state after it and the id it returns
HandleClassDefinition(st, node, file_path, parent_id) ==
    LET class_name == ExtractIdentifier(node)
        node_id == "class:" \o class_name
        docstring == ExtractDocstring(node)
        staged == [st EXCEPT
                     !.nodes = Append(@, [type |-> "node", id |-> node_id,
                                          labels |-> <<"Class">>,
                                          properties |->
                                            [name |-> class_name,
                                             description |-> IF Truthy(docstring)
                                                             THEN docstring ELSE "",
                                             file_path |-> file_path,
                                             base_classes |-> ExtractBaseClasses(node),
                                             line_start |-> node.row + 1,
                                             line_end |-> node.end_row + 1]]),
                     !.processed_nodes = @ \cup {node_id}]
        parent == IF Truthy(parent_id) THEN parent_id ELSE "file:" \o PathName(file_path)
    IN  IF ~Truthy(class_name) THEN [st |-> st, id |-> None]
        ELSE IF node_id \notin st.processed_nodes
        THEN [st |-> AddRelationship(staged, node_id, parent, "DEFINED_IN", EmptyProps),
              id |-> node_id]
        ELSE [st |-> st, id |-> node_id]

\* _handle_function_definition that writes the properties of a later
\* definition over the node staged for the same id
HandleFunctionDefinition_Overwrites(st, node, file_path, parent_id) ==
    LET func_name == ExtractIdentifier(node)
        node_id == "method:" \o func_name
        is_async == Len(ChildrenOfType(node, "async")) > 0
        docstring == ExtractDocstring(node)
        record == [type |-> "node", id |-> node_id, labels |-> <<"Method">>,
                   properties |->
                     [name |-> func_name,
                      description |-> IF Truthy(docstring) THEN docstring ELSE "",
                      file_path |-> file_path,
                      method_type |-> IF is_async THEN "async" ELSE "sync",
                      parameters |-> ExtractParameters(node),
                      line_start |-> node.row + 1,
                      line_end |-> node.end_row + 1]]
        staged == [st EXCEPT !.nodes = Append(@, record),
                             !.processed_nodes = @ \cup {node_id}]
        parent == IF Truthy(parent_id) THEN parent_id ELSE "file:" \o PathName(file_path)
    IN  IF ~Truthy(func_name) THEN [st |-> st, id |-> None]
        ELSE IF node_id \notin st.processed_nodes
        THEN [st |-> AddRelationship(staged, node_id, parent, "DEFINED_IN", EmptyProps),
              id |-> node_id]
        ELSE [st |-> [st EXCEPT !.nodes =
                         [i \in 1..Len(st.nodes) |->
                             IF st.nodes[i].id = node_id THEN record ELSE st.nodes[i]]],
              id |-> node_id]

\* _handle_function_definition: the state after it and the id it returns
HandleFunctionDefinition(st, node, file_path, parent_id) ==
    LET func_name == ExtractIdentifier(node)
        node_id == "method:" \o func_name
        is_async == Len(ChildrenOfType(node, "async")) > 0
        docstring == ExtractDocstring(node)
        staged == [st EXCEPT
                     !.nodes = Append(@, [type |-> "node", id |-> node_id,
                                          labels |-> <<"Method">>,
                                          properties |->
                                            [name |-> func_name,
                                             description |-> IF Truthy(docstring)
                                                             THEN docstring ELSE "",
                                             file_path |-> file_path,
                                             method_type |-> IF is_async THEN "async"
                                                             ELSE "sync",
                                             parameters |-> ExtractParameters(node),
                                             line_start |-> node.row + 1,
                                             line_end |-> node.end_row + 1]]),
                     !.processed_nodes = @ \cup {node_id}]
        parent == IF Truthy(parent_id) THEN parent_id ELSE "file:" \o PathName(file_path)
    IN  IF ~Truthy(func_name) THEN [st |-> st, id |-> None]
        ELSE IF node_id \notin st.processed_nodes
        THEN [st |-> AddRelationship(staged, node_id, parent, "DEFINED_IN", EmptyProps),
              id |-> node_id]
        ELSE [st |-> st, id |-> node_id]

\* str(hash(import_text)): Python's per-process string hash, kept symbolic
PyHash(text) == "#" \o text

\* _handle_import
HandleImport(st, node, file_path) ==
    LET import_text == node.text
        imported_items ==
            IF node.type = "import_statement"
            THEN ImportItemsOfAll(SelectSeq(node.children,
                     LAMBDA c : c.type = "dotted_as_names" \/ c.type = "aliased_import"))
            ELSE IF node.type = "import_from_statement"
            THEN ImportItemsOfAll(ChildrenOfType(node, "import_list"))
            ELSE <<>>
        file_name == PathName(file_path)
        import_id == "import:" \o file_name \o ":" \o PyHash(import_text)
        staged == [st EXCEPT
                     !.nodes = Append(@, [type |-> "node", id |-> import_id,
                                          labels |-> <<"Import">>,
                                          properties |->
                                            [name |-> "import",
                                             description |-> import_text,
                                             file_path |-> file_path,
                                             imported_items |-> imported_items,
                                             line_number |-> node.row + 1]]),
                     !.processed_nodes = @ \cup {import_id}]
    IN  IF Strip(import_text) = "" THEN st
        ELSE IF Len(imported_items) = 0 THEN st
        ELSE IF import_id \in st.processed_nodes THEN st
        ELSE AddRelationship(staged, import_id, "file:" \o file_name, "IMPORTED_IN", EmptyProps)

\* _handle_method_call that stages an edge only for a target already processed
HandleMethodCall_OnlyDefined(st, node, file_path, parent_id) ==
    IF Len(node.children) = 0 THEN st
    ELSE LET method_name == ExtractMethodName(node.children[1])
         IN  IF Truthy(method_name) /\ Truthy(parent_id)
                /\ ("method:" \o method_name) \in st.processed_nodes
             THEN AddRelationship(st, "method:" \o method_name, parent_id, "CALLED_IN",
                                  EmptyProps)
             ELSE st

\* _handle_method_call
HandleMethodCall(st, node, file_path, parent_id) ==
    IF Len(node.children) = 0 THEN st
    ELSE LET method_name == ExtractMethodName(node.children[1])
         IN  IF Truthy(method_name) /\ Truthy(parent_id)
             THEN AddRelationship(st, "method:" \o method_name, parent_id, "CALLED_IN",
                                  EmptyProps)
             ELSE st

\* the depth of _parse_node calls at which CPython raises RecursionError
\* (sys.getrecursionlimit() is 1000 and nothing in the repository changes it)
RecursionLimit == 1000

RECURSIVE ParseNode(_, _, _, _, _)
RECURSIVE ParseChildren(_, _, _, _, _, _)
\* _parse_node that leaves out the children of a definition without a name
ParseNode_SkipsNameless(st, node, file_path, parent_id, depth) ==
    LET file_name == PathName(file_path)
        after ==
            IF node.type = "module"
            THEN [st |-> HandleModule(st, node, file_path, file_name), id |-> parent_id]
            ELSE IF node.type = "class_definition"
            THEN HandleClassDefinition(st, node, file_path, parent_id)
            ELSE IF node.type = "function_definition"
            THEN HandleFunctionDefinition(st, node, file_path, parent_id)
            ELSE IF node.type \in {"import_statement", "import_from_statement"}
            THEN [st |-> HandleImport(st, node, file_path), id |-> parent_id]
            ELSE IF node.type = "call"
            THEN [st |-> HandleMethodCall(st, node, file_path, parent_id), id |-> parent_id]
            ELSE [st |-> st, id |-> parent_id]
    IN  IF depth > RecursionLimit THEN [st EXCEPT !.raised = TRUE]
        ELSE Then(after,
                  LAMBDA a :
                      IF node.type \in {"class_definition", "function_definition"}
                         /\ a.id = None
                      THEN a.st
                      ELSE ParseChildren(a.st, node.children, 1, file_path, a.id, depth))

\* _parse_node: the handler of the node's type, then every child in order
\* with the parent id the handler left.  depth counts the nested calls; an
\* exception (st.raised) ends the walk.
ParseNode(st, node, file_path, parent_id, depth) ==
    LET file_name == PathName(file_path)
        cls == HandleClassDefinition(st, node, file_path, parent_id)
        fn  == HandleFunctionDefinition(st, node, file_path, parent_id)
        after ==
            IF node.type = "module"
            THEN [st |-> HandleModule(st, node, file_path, file_name), id |-> parent_id]
            ELSE IF node.type = "class_definition" THEN cls
            ELSE IF node.type = "function_definition" THEN fn
            ELSE IF node.type \in {"import_statement", "import_from_statement"}
            THEN [st |-> HandleImport(st, node, file_path), id |-> parent_id]
            ELSE IF node.type = "call"
            THEN [st |-> HandleMethodCall(st, node, file_path, parent_id), id |-> parent_id]
            ELSE [st |-> st, id |-> parent_id]
    IN  IF depth > RecursionLimit THEN [st EXCEPT !.raised = TRUE]
        ELSE Then(after,
                  LAMBDA a : ParseChildren(a.st, node.children, 1, file_path, a.id, depth))

\* the loop "for child in node.children" of _parse_node, from child i on
ParseChildren(st, children, i, file_path, parent_id, depth) ==
    IF i > Len(children) THEN st
    ELSE Then(ParseNode(st, children[i], file_path, parent_id, depth + 1),
              LAMBDA s1 :
                  IF s1.raised THEN s1
                  ELSE ParseChildren(s1, children, i + 1, file_path, parent_id, depth))

\* __init__: the fields of a new parser
InitParser == [nodes |-> <<>>, relationships |-> <<>>, processed_nodes |-> {},
               raised |-> FALSE]

\* reset that leaves self.processed_nodes as it is
ResetState_KeepsProcessed(st) ==
    [st EXCEPT !.nodes = <<>>, !.relationships = <<>>]

\* reset
ResetState(st) ==
    [st EXCEPT !.nodes = <<>>, !.relationships = <<>>, !.processed_nodes = {}]

(***************************************************************************)
(* The source units the parser is run on.  A unit is a module of one or    *)
(* two statements; the statements cover every node shape the walker        *)
(* distinguishes.  Item(i, r) is statement i laid out from row r.          *)
(***************************************************************************)
Item(i, r) ==
    CASE i = 1 ->  \* class A:  def f(self): g()
           ClassDef("A", <<>>,
               <<FuncDef(FALSE, "f", <<Ident("self", r + 1)>>,
                         <<CallStmt("g", r + 2)>>, r + 1)>>, r)
      [] i = 2 ->  \* class B(A):  async def f(self, x: int, y=3): self.g()
           ClassDef("B", <<"A">>,
               <<FuncDef(TRUE, "f",
                         <<Ident("self", r + 1), TypedParameter("x", "int", r + 1),
                           DefaultParameter("y", "3", r + 1)>>,
                         <<AttrCallStmt("self", "g", r + 2)>>, r + 1)>>, r)
      [] i = 3 ->  \* class A(B): pass
           ClassDef("A", <<"B">>, <<PassStmt(r + 1)>>, r)
      [] i = 4 ->  \* def g():  def h(): f()
           FuncDef(FALSE, "g", <<>>,
               <<FuncDef(FALSE, "h", <<>>, <<CallStmt("f", r + 2)>>, r + 1)>>, r)
      [] i = 5 ->  \* f()
           CallStmt("f", r)
      [] i = 6 ->  \* import os
           ImportStmt(<<"os">>, r)
      [] i = 7 ->  \* import os as o
           Mk("import_statement",
              <<Tok("import", "import", r),
                Mk("aliased_import",
                   <<Mk("dotted_name", <<Ident("os", r)>>, ""), Tok("as", "as", r),
                     Ident("o", r)>>, " ")>>, " ")
      [] i = 8 ->  \* from sys import path
           ImportFromStmt("sys", <<"path">>, r)
      [] i = 9 ->  \* class A:  def (): { def h(): f() }    a definition without a name
           ClassDef("A", <<>>,
               <<FuncDef(FALSE, None, <<>>,
                   <<FuncDef(FALSE, "h", <<>>, <<CallStmt("f", r + 3)>>, r + 2)>>,
                   r + 1)>>, r)
      [] i = 10 -> \* ) class B: pass               text no rule fits, then a class
           ErrorNode(<<Tok(")", ")", r), ClassDef("B", <<>>, <<PassStmt(r + 1)>>, r)>>)
      [] i = 11 -> \* def m(): """doc""" ; f()() ; f()
           FuncDef(FALSE, "m", <<>>,
               <<ExprStmt(Tok("string", "\"\"\"doc\"\"\"", r + 1)),
                 CallCallStmt("f", r + 2), CallStmt("f", r + 3)>>, r)
      [] i = 13 -> \* class Foo(Base):  async def run(self, timeout=5): helper()
           ClassDef("Foo", <<"Base">>,
               <<FuncDef(TRUE, "run",
                         <<Ident("self", r + 1), DefaultParameter("timeout", "5", r + 1)>>,
                         <<CallStmt("helper", r + 2)>>, r + 1)>>, r)
      [] i = 14 -> \* class : { def k(): f() }      a class without a name
           ClassDef(None, <<>>,
               <<FuncDef(FALSE, "k", <<>>, <<CallStmt("f", r + 2)>>, r + 1)>>, r)
      [] i = 15 -> \* def g():  def (): { f() }     a call inside a definition without a name
           FuncDef(FALSE, "g", <<>>,
               <<FuncDef(FALSE, None, <<>>, <<CallStmt("f", r + 2)>>, r + 1)>>, r)
      [] OTHER ->  \* def f(): pass
           FuncDef(FALSE, "f", <<>>, <<PassStmt(r + 1)>>, r)

NumItems == 15

RowGap == 10

\* the statement lists of the units: every single statement and chosen pairs
UnitItems ==
    {<<i>> : i \in 1..NumItems}
    \cup {<<1, 2>>, <<1, 3>>, <<3, 1>>, <<12, 1>>, <<4, 5>>, <<6, 8>>, <<7, 6>>, <<7, 7>>,
          <<9, 2>>, <<10, 1>>, <<11, 4>>, <<6, 1>>, <<6, 13>>}

\* a tree whose root is itself an ERROR node:  def class A: ...
ErrorRootTree == ErrorNode(<<Tok("def", "def", 0), Item(1, 1)>>)

\* what Parser.parse returns for the text of each unit (<<0>>: ErrorRootTree)
TreeAt ==
    [items \in UnitItems \cup {<<0>>} |->
        IF items = <<0>> THEN ErrorRootTree
        ELSE Module([k \in 1..Len(items) |-> Item(items[k], (k - 1) * RowGap)])]

\* the file system: what is at each path the parser may be given
PathOf(items) ==
    IF items = <<6, 13>> THEN "pkg/sample.py"
    ELSE IF Len(items) = 1 THEN "src/a.py" ELSE "lib/b.py"

Files ==
    {[path |-> PathOf(items), kind |-> "file", items |-> items] :
        items \in UnitItems \cup {<<0>>}}
    \cup {[path |-> "src/gone.py", kind |-> "missing", items |-> <<>>],
          [path |-> "src/bin.py", kind |-> "undecodable", items |-> <<>>]}

(***************************************************************************)
(* Specification Spec: one staging PythonCodeParser and a caller that      *)
(* calls parse_file and reset on it in any order.                          *)
(*                                                                         *)
(* parse_file returns either the parser's own two lists (the objects       *)
(* self.nodes and self.relationships, alias = TRUE) or two new empty       *)
(* lists (alias = FALSE).  ret and held record which, together with the    *)
(* contents at the moment of the return.                                   *)
(***************************************************************************)
ParserState == [nodes |-> nodes, relationships |-> relationships,
                processed_nodes |-> processed_nodes, raised |-> FALSE]

\* fail_in: the backend rejects the fail_in-th query from now (0: none);
\* raised: an exception has left a GraphDB method and is propagating
StoreInit == [nodes |-> <<>>, edges |-> <<>>, fail_in |-> 0, raised |-> FALSE]

SigInit == [processed_nodes |-> {}, imports |-> <<>>, returned |-> "not called"]

IdleVars == <<store, sig, workers, hist>>

IdleInit ==
    /\ store = StoreInit
    /\ sig = SigInit
    /\ workers = <<>>
    /\ hist = <<>>

\* before the first call: nothing returned, nothing kept
NoReturn == [called |-> FALSE, alias |-> FALSE, nodes |-> <<>>, relationships |-> <<>>,
             file |-> [path |-> "", kind |-> "none", items |-> <<>>],
             raised |-> FALSE, overlap |-> FALSE, prev_failed |-> FALSE]

NotHeld == [kept |-> FALSE, alias |-> FALSE]

Init ==
    /\ nodes = InitParser.nodes
    /\ relationships = InitParser.relationships
    /\ processed_nodes = InitParser.processed_nodes
    /\ ret = NoReturn
    /\ held = NotHeld
    /\ last = "init"
    /\ IdleInit

\* parse_file's try block without the call of reset
ParseFileBody_NoReset(st, f) == ParseNode(st, TreeAt[f.items], f.path, None, 1)

\* the body of parse_file's try block on a file that can be read:
\* parse, reset, walk from the root with parent_id None
ParseFileBody(st, f) == ParseNode(ResetState(st), TreeAt[f.items], f.path, None, 1)

\* parse_file(f.path).  A missing or undecodable file raises before the
\* reset; any exception makes the call return two new empty lists.  The
\* caller may keep the returned pair (held).
ParseFile(f) ==
    \E st \in {IF f.kind = "file" THEN ParseFileBody(ParserState, f) ELSE ParserState} :
        LET readable == f.kind = "file"
            raised == ~readable \/ st.raised
            result == IF raised
                      THEN [alias |-> FALSE, nodes |-> <<>>, relationships |-> <<>>]
                      ELSE [alias |-> TRUE, nodes |-> st.nodes,
                            relationships |-> st.relationships]
            \* for the record: did the parser already hold an id this pass processed
            overlap == readable /\ processed_nodes \cap st.processed_nodes # {}
        IN  /\ IF readable
               THEN /\ nodes' = st.nodes
                    /\ relationships' = st.relationships
                    /\ processed_nodes' = st.processed_nodes
               ELSE UNCHANGED <<nodes, relationships, processed_nodes>>
            /\ ret' = [called |-> TRUE, alias |-> result.alias, nodes |-> result.nodes,
                       relationships |-> result.relationships, file |-> f,
                       raised |-> raised, overlap |-> overlap,
                       prev_failed |-> last = "parse_file" /\ ret.raised]
            /\ \E keep \in BOOLEAN :
                   held' = IF keep /\ ~held.kept
                           THEN [kept |-> TRUE, alias |-> result.alias] ELSE held
            /\ last' = "parse_file"
            /\ UNCHANGED IdleVars

\* reset()
Reset ==
    /\ nodes' = ResetState(ParserState).nodes
    /\ relationships' = ResetState(ParserState).relationships
    /\ processed_nodes' = ResetState(ParserState).processed_nodes
    /\ last' = "reset"
    /\ UNCHANGED <<ret, held>>
    /\ UNCHANGED IdleVars

Next ==
    \/ \E f \in Files : ParseFile(f)
    \/ Reset

Spec == Init /\ [][Next]_vars

\* what a caller holding result r sees in it now
NodesSeen(r) == IF r.alias THEN nodes ELSE <<>>

RelationshipsSeen(r) == IF r.alias THEN relationships ELSE <<>>

(***************************************************************************)
(* What a source unit contains, read off its tree independently of the     *)
(* walker: every named definition with the id of its lexical parent, and   *)
(* every call with the id of the entity that encloses it.                  *)
(***************************************************************************)
IsDefinition(node) == node.type \in {"class_definition", "function_definition"}

DefinitionId(node) ==
    (IF node.type = "class_definition" THEN "class:" ELSE "method:")
    \o ExtractIdentifier(node)

RECURSIVE Lexical(_, _, _)
RECURSIVE LexicalOfChildren(_, _, _, _)
\* enclosing: the id of the innermost enclosing named definition, or of the
\* file; inside: the node lies inside some class or function definition
Lexical(node, enclosing, inside) ==
    LET named == IsDefinition(node) /\ Truthy(ExtractIdentifier(node))
        here == IF named
                THEN <<[kind |-> "def", id |-> DefinitionId(node), enclosing |-> enclosing,
                        inside |-> inside, node |-> node]>>
                ELSE IF node.type = "call" /\ Len(node.children) > 0
                THEN <<[kind |-> "call", id |-> ExtractMethodName(node.children[1]),
                        enclosing |-> enclosing, inside |-> inside, node |-> node]>>
                ELSE <<>>
    IN  here \o LexicalOfChildren(node.children, 1,
                                  IF named THEN DefinitionId(node) ELSE enclosing,
                                  inside \/ IsDefinition(node))

LexicalOfChildren(children, i, enclosing, inside) ==
    IF i > Len(children) THEN <<>>
    ELSE Lexical(children[i], enclosing, inside)
         \o LexicalOfChildren(children, i + 1, enclosing, inside)

FileId(f) == "file:" \o PathName(f.path)

\* the definitions and calls of each readable file, in document order
LexicalOf ==
    [f \in {g \in Files : g.kind = "file"} |-> Lexical(TreeAt[f.items], FileId(f), FALSE)]

DefsOf(f) == SelectSeq(LexicalOf[f], LAMBDA e : e.kind = "def")

CallsOf(f) == SelectSeq(LexicalOf[f], LAMBDA e : e.kind = "call" /\ Truthy(e.id))

HasNode(ns, id) == \E i \in 1..Len(ns) : ns[i].id = id

HasRel(rs, start_id, end_id, label) ==
    \E i \in 1..Len(rs) :
        rs[i].start.id = start_id /\ rs[i].end.id = end_id /\ rs[i].label = label

NoTwoWithSameId(ns) ==
    \A i, j \in 1..Len(ns) : ns[i].id = ns[j].id => i = j

\* the positions of the staged records with a label
NodesLabelled(ns, label) ==
    {i \in 1..Len(ns) : \E k \in 1..Len(ns[i].labels) : ns[i].labels[k] = label}

RelsLabelled(rs, label) == {i \in 1..Len(rs) : rs[i].label = label}

\* the last call was a parse_file that returned the parser's lists
Parsed == ret.called /\ ~ret.raised

(***************************************************************************)
(* C1.  After any sequence of parse_file calls the node collection of the  *)
(* most recent pass holds no two node records with the same id, also when  *)
(* the unit defines the same class or function name several times.         *)
(***************************************************************************)
C1_UniqueNodeIds ==
    /\ NoTwoWithSameId(nodes)
    /\ NoTwoWithSameId(ret.nodes)

\* a pass over a unit with two definitions of one id has staged that id
C1_Witness ==
    /\ Parsed
    /\ \E i, j \in 1..Len(DefsOf(ret.file)) :
          /\ i < j
          /\ DefsOf(ret.file)[i].id = DefsOf(ret.file)[j].id
          /\ HasNode(ret.nodes, DefsOf(ret.file)[i].id)

(***************************************************************************)
(* C2.  For every named class or function definition visited in a pass a   *)
(* DEFINED_IN edge from its id to the id of its lexical parent is staged,  *)
(* also when the same id was processed earlier in the pass.  Stated for    *)
(* the units that parse without a syntax error, where every definition has *)
(* a name and the lexical parent is not in doubt.                          *)
(***************************************************************************)
C2_EveryDefinitionHasItsEdge ==
    (Parsed /\ ~HasError(TreeAt[ret.file.items])) =>
        \A i \in 1..Len(DefsOf(ret.file)) :
            HasRel(ret.relationships, DefsOf(ret.file)[i].id,
                   DefsOf(ret.file)[i].enclosing, "DEFINED_IN")

(***************************************************************************)
(* C3.  A call outside every class and function definition whose callee    *)
(* resolves to a name t stages a CALLED_IN edge from method:t to the file. *)
(***************************************************************************)
C3_TopLevelCallEdge ==
    Parsed =>
        \A i \in 1..Len(CallsOf(ret.file)) :
            ~CallsOf(ret.file)[i].inside =>
                HasRel(ret.relationships, "method:" \o CallsOf(ret.file)[i].id,
                       FileId(ret.file), "CALLED_IN")

(***************************************************************************)
(* C4.  parse_file on a unit with a syntax error returns an empty node     *)
(* list and an empty relationship list.                                    *)
(***************************************************************************)
C4_SyntaxErrorGivesEmpty ==
    (ret.called /\ ret.file.kind = "file" /\ HasError(TreeAt[ret.file.items])) =>
        (ret.nodes = <<>> /\ ret.relationships = <<>>)

(***************************************************************************)
(* C5.  The collections parse_file returned are not modified by any later  *)
(* parse_file or reset call on the same parser: while the caller holds a   *)
(* result, what it sees in it stays the same.                              *)
(***************************************************************************)
C5_ReturnedCollectionsKept ==
    [][(held.kept /\ held' = held) =>
          /\ NodesSeen(held)' = NodesSeen(held)
          /\ RelationshipsSeen(held)' = RelationshipsSeen(held)]_vars

(***************************************************************************)
(* C10.  The result of every pass of a reused parser equals the result a   *)
(* newly constructed parser gives for the same unit.                       *)
(***************************************************************************)
\* parse_file(f.path) on a new PythonCodeParser
FreshResult ==
    [f \in Files |->
        LET st == ParseFileBody(InitParser, f)
        IN  IF f.kind # "file" \/ st.raised
            THEN [nodes |-> <<>>, relationships |-> <<>>]
            ELSE [nodes |-> st.nodes, relationships |-> st.relationships]]

C10_ReusedParserEqualsFresh ==
    ret.called =>
        /\ ret.nodes = FreshResult[ret.file].nodes
        /\ ret.relationships = FreshResult[ret.file].relationships

\* a pass that staged ids the parser had already processed in an earlier pass
C10_Witness ==
    /\ Parsed
    /\ ret.overlap
    /\ Len(ret.nodes) > 1
    /\ Len(ret.relationships) > 0

(***************************************************************************)
(* C11.  A parse_file call on a missing or unreadable file returns two     *)
(* empty lists (no exception leaves the call), and the next parse_file     *)
(* call of the same parser on a readable unit returns exactly that unit's  *)
(* nodes and relationships: nothing of the failed unit or of any unit      *)
(* parsed before it.                                                       *)
(***************************************************************************)
C11_FailureIsIsolated ==
    /\ (ret.called /\ ret.file.kind # "file") =>
           (ret.raised /\ ~ret.alias /\ ret.nodes = <<>> /\ ret.relationships = <<>>)
    /\ (ret.called /\ ret.prev_failed /\ ret.file.kind = "file") =>
           /\ ~ret.raised
           /\ ret.nodes = FreshResult[ret.file].nodes
           /\ ret.relationships = FreshResult[ret.file].relationships
           /\ last = "parse_file" => (nodes = ret.nodes /\ relationships = ret.relationships)

\* a readable unit parsed right after a failed call, by a parser that had
\* parsed a unit with some of the same ids before the failure
C11_Witness ==
    /\ Parsed
    /\ ret.prev_failed
    /\ ret.overlap
    /\ Len(ret.nodes) > 2
    /\ Len(ret.relationships) > 1

C17_EveryDefinitionNodeIsContained ==
    \A i \in NodesLabelled(nodes, "Class") \cup NodesLabelled(nodes, "Method") :
        \E j \in RelsLabelled(relationships, "DEFINED_IN") :
            relationships[j].start.id = nodes[i].id

\* a pass has staged a class, a method in it and a function of the file
C17_Witness ==
    /\ Parsed
    /\ last = "parse_file"
    /\ NodesLabelled(nodes, "Class") # {}
    /\ \E i \in NodesLabelled(nodes, "Method") :
          HasRel(relationships, nodes[i].id, FileId(ret.file), "DEFINED_IN")
    /\ \E i \in NodesLabelled(nodes, "Method"), c \in NodesLabelled(nodes, "Class") :
          HasRel(relationships, nodes[i].id, nodes[c].id, "DEFINED_IN")

(***************************************************************************)
(* What lies inside the definitions without a name, read off the tree: the *)
(* named definitions and the resolvable calls below such a definition,     *)
(* each with the id that encloses it (outer) when a definition without a   *)
(* name is no scope of its own.  direct: no named definition lies between  *)
(* the entry and the definition without a name.                            *)
(***************************************************************************)
RECURSIVE InNameless(_, _, _, _)
RECURSIVE InNamelessOfChildren(_, _, _, _, _)
InNameless(node, outer, under, direct) ==
    LET named == IsDefinition(node) /\ Truthy(ExtractIdentifier(node))
        nameless == IsDefinition(node) /\ ~named
        here == IF under /\ named
                THEN <<[kind |-> "def", id |-> DefinitionId(node), outer |-> outer,
                        direct |-> direct]>>
                ELSE IF under /\ node.type = "call" /\ Len(node.children) > 0
                        /\ Truthy(ExtractMethodName(node.children[1]))
                THEN <<[kind |-> "call",
                        id |-> "method:" \o ExtractMethodName(node.children[1]),
                        outer |-> outer, direct |-> direct]>>
                ELSE <<>>
    IN  here \o InNamelessOfChildren(node.children, 1,
                                     IF named THEN DefinitionId(node) ELSE outer,
                                     under \/ nameless,
                                     IF nameless THEN TRUE ELSE direct /\ ~named)

InNamelessOfChildren(children, i, outer, under, direct) ==
    IF i > Len(children) THEN <<>>
    ELSE InNameless(children[i], outer, under, direct)
         \o InNamelessOfChildren(children, i + 1, outer, under, direct)

InNamelessOf ==
    [f \in {g \in Files : g.kind = "file"} |->
        InNameless(TreeAt[f.items], FileId(f), FALSE, FALSE)]

RECURSIVE HasNameless(_)
RECURSIVE AnyHasNameless(_, _)
\* the node is or contains a class or function definition without a name
HasNameless(node) ==
    \/ IsDefinition(node) /\ ~Truthy(ExtractIdentifier(node))
    \/ AnyHasNameless(node.children, 1)

AnyHasNameless(children, i) ==
    IF i > Len(children) THEN FALSE
    ELSE HasNameless(children[i]) \/ AnyHasNameless(children, i + 1)

HasNamelessOf == [f \in {g \in Files : g.kind = "file"} |-> HasNameless(TreeAt[f.items])]

(***************************************************************************)
(* C21.  A pass over a unit with a class or function definition that has   *)
(* no identifier child raises nothing, stages no node and no DEFINED_IN    *)
(* edge for that definition (every Class or Method node and every          *)
(* DEFINED_IN edge belongs to a named definition of the unit), and still   *)
(* walks what lies below it: every named definition below it has its node, *)
(* and every call in such a named definition has its CALLED_IN edge.       *)
(***************************************************************************)
C21_NamelessDefinitionIsSkipped ==
    (ret.called /\ ret.file.kind = "file" /\ HasNamelessOf[ret.file]) =>
        /\ ~ret.raised
        /\ \A n \in NodesLabelled(ret.nodes, "Class") \cup NodesLabelled(ret.nodes, "Method") :
              \E j \in 1..Len(DefsOf(ret.file)) : DefsOf(ret.file)[j].id = ret.nodes[n].id
        /\ \A r \in RelsLabelled(ret.relationships, "DEFINED_IN") :
              \E j \in 1..Len(DefsOf(ret.file)) :
                  DefsOf(ret.file)[j].id = ret.relationships[r].start.id
        /\ \A i \in 1..Len(InNamelessOf[ret.file]) :
              LET e == InNamelessOf[ret.file][i]
              IN  /\ e.kind = "def" => HasNode(ret.nodes, e.id)
                  /\ (e.kind = "call" /\ ~e.direct) =>
                        HasRel(ret.relationships, e.id, e.outer, "CALLED_IN")

\* a pass over a unit where a function without a name holds a named
\* function that makes a call
C21_Witness ==
    /\ Parsed
    /\ HasNamelessOf[ret.file]
    /\ \E i, j \in 1..Len(InNamelessOf[ret.file]) :
          /\ InNamelessOf[ret.file][i].kind = "def"
          /\ HasNode(ret.nodes, InNamelessOf[ret.file][i].id)
          /\ InNamelessOf[ret.file][j].kind = "call"
          /\ InNamelessOf[ret.file][j].outer = InNamelessOf[ret.file][i].id
          /\ HasRel(ret.relationships, InNamelessOf[ret.file][j].id,
                    InNamelessOf[ret.file][i].id, "CALLED_IN")

(***************************************************************************)
(* C22.  What lies directly inside a definition without a name keeps the   *)
(* enclosing id in effect outside that definition: a call there stages its *)
(* CALLED_IN edge to the outer enclosing entity, and a named definition    *)
(* there is DEFINED_IN the outer enclosing entity.                         *)
(***************************************************************************)
C22_NamelessKeepsEnclosingId ==
    Parsed =>
        \A i \in 1..Len(InNamelessOf[ret.file]) :
            LET e == InNamelessOf[ret.file][i]
            IN  e.direct =>
                   HasRel(ret.relationships, e.id, e.outer,
                          IF e.kind = "def" THEN "DEFINED_IN" ELSE "CALLED_IN")

(***************************************************************************)
(* C23.  After a parse_file call that failed, the node and relationship    *)
(* collections the parser holds, which save_results writes, are empty:     *)
(* they hold no record of the unit parsed before and no partial record of  *)
(* the failed unit.                                                        *)
(***************************************************************************)
C23_FailedPassLeavesNothingStaged ==
    (last = "parse_file" /\ ret.raised) =>
        /\ nodes = <<>>
        /\ relationships = <<>>

\* the position in DefsOf(f) of the first definition, in document order,
\* with the id of the definition at position j
FirstWithId(f, j) ==
    CHOOSE k \in 1..j :
        /\ DefsOf(f)[k].id = DefsOf(f)[j].id
        /\ \A m \in 1..(k - 1) : DefsOf(f)[m].id # DefsOf(f)[j].id

\* the staged node n carries what the definition node d says
CarriesPropertiesOf(n, d) ==
    /\ n.properties.line_start = d.row + 1
    /\ n.properties.line_end = d.end_row + 1
    /\ IF d.type = "class_definition"
       THEN n.properties.base_classes = ExtractBaseClasses(d)
       ELSE /\ n.properties.parameters = ExtractParameters(d)
            /\ n.properties.method_type =
                  (IF \E c \in 1..Len(d.children) : d.children[c].type = "async"
                   THEN "async" ELSE "sync")

(***************************************************************************)
(* C25.  When several definitions of a unit yield the same id, the node    *)
(* staged for the id carries the parameters, method_type, base_classes and *)
(* line range of the first of them in document order; the later ones       *)
(* change nothing in it.                                                   *)
(***************************************************************************)
C25_FirstDefinitionWins ==
    Parsed =>
        \A j \in 1..Len(DefsOf(ret.file)) :
            \A n \in 1..Len(ret.nodes) :
                ret.nodes[n].id = DefsOf(ret.file)[j].id =>
                    CarriesPropertiesOf(ret.nodes[n],
                                        DefsOf(ret.file)[FirstWithId(ret.file, j)].node)

\* a pass over a unit with two function definitions of one id that differ
\* in their parameters, the staged node carrying those of the first
C25_Witness ==
    /\ Parsed
    /\ \E j, k \in 1..Len(DefsOf(ret.file)) :
          /\ j < k
          /\ DefsOf(ret.file)[j].id = DefsOf(ret.file)[k].id
          /\ DefsOf(ret.file)[j].node.type = "function_definition"
          /\ ExtractParameters(DefsOf(ret.file)[j].node)
                # ExtractParameters(DefsOf(ret.file)[k].node)
          /\ \E n \in 1..Len(ret.nodes) :
                /\ ret.nodes[n].id = DefsOf(ret.file)[j].id
                /\ ret.nodes[n].properties.parameters
                      = ExtractParameters(DefsOf(ret.file)[FirstWithId(ret.file, j)].node)

(***************************************************************************)
(* C19.  Every relationship a pass stages is labelled DEFINED_IN,          *)
(* CALLED_IN or IMPORTS_FOR; the edge from an import entity to its file    *)
(* is labelled IMPORTS_FOR.                                                *)
(***************************************************************************)
C19_LabelsOfTheSpec ==
    Parsed =>
        \A i \in 1..Len(ret.relationships) :
            /\ ret.relationships[i].label \in {"DEFINED_IN", "CALLED_IN", "IMPORTS_FOR"}
            /\ (\E n \in NodesLabelled(ret.nodes, "Import") :
                    ret.nodes[n].id = ret.relationships[i].start.id)
                  => ret.relationships[i].label = "IMPORTS_FOR"

RECURSIVE ImportTexts(_)
RECURSIVE ImportTextsOfChildren(_, _)
\* the trimmed texts of the non-empty import statements of a tree, in
\* source order
ImportTexts(node) ==
    (IF node.type \in {"import_statement", "import_from_statement"}
        /\ Strip(node.text) # ""
     THEN <<Strip(node.text)>> ELSE <<>>)
    \o ImportTextsOfChildren(node.children, 1)

ImportTextsOfChildren(children, i) ==
    IF i > Len(children) THEN <<>>
    ELSE ImportTexts(children[i]) \o ImportTextsOfChildren(children, i + 1)

ImportsOf ==
    [f \in {g \in Files : g.kind = "file"} |-> ImportTexts(TreeAt[f.items])]

(***************************************************************************)
(* C14.  A pass over a file with import statements stages exactly one      *)
(* Import node, with id import:<basename> and a code_block that is the     *)
(* trimmed import texts joined by newlines in source order, and exactly    *)
(* one IMPORTS_FOR edge, from that node to file:<basename>; a pass over a  *)
(* file without import statements stages no Import node and no             *)
(* IMPORTS_FOR edge.  Stated for the staging parser.                       *)
(***************************************************************************)
C14_OneImportNodePerFile ==
    (Parsed /\ ~HasError(TreeAt[ret.file.items])) =>
        LET imports == ImportsOf[ret.file]
            staged == NodesLabelled(ret.nodes, "Import")
            edges == RelsLabelled(ret.relationships, "IMPORTS_FOR")
            import_id == "import:" \o PathName(ret.file.path)
        IN  IF Len(imports) = 0
            THEN staged = {} /\ edges = {}
            ELSE /\ Cardinality(staged) = 1
                 /\ Cardinality(edges) = 1
                 /\ \A i \in staged :
                        /\ ret.nodes[i].id = import_id
                        /\ "code_block" \in DOMAIN ret.nodes[i].properties
                        /\ ret.nodes[i].properties.code_block = JoinWith("\n", imports)
                 /\ HasRel(ret.relationships, import_id, FileId(ret.file), "IMPORTS_FOR")

(***************************************************************************)
(* signature_based_rag/src/service/graph_services.py: GraphDB over Neo4j.  *)
(* The graph is a list of nodes, each with a set of labels and a property  *)
(* map, and a list of edges between node positions, each with a label and  *)
(* a property map.  Every session.run is one auto-commit transaction.      *)
(*                                                                         *)
(* A session.run the backend rejects raises.  create_node's writes and     *)
(* the relationship CREATE sit in try/except blocks that print and go on;  *)
(* the reads of get_node and get_relationship sit in none, so their        *)
(* exception leaves GraphDB (raised), and every statement after it, up to  *)
(* the except clause of the caller, is skipped.                            *)
(***************************************************************************)
\* the backend rejects the next query
Rejects(g) == g.fail_in = 1

\* the graph after a rejected query inside try/except: nothing written
Rejected(g) == [g EXCEPT !.fail_in = 0]

\* the graph after a rejected query outside try/except: the exception leaves
Raised(g) == [g EXCEPT !.fail_in = 0, !.raised = TRUE]

\* the graph g a query left, the backend having answered one more query
Answered(g) == [g EXCEPT !.fail_in = IF @ > 1 THEN @ - 1 ELSE 0]

\* the property map {**old, **new} that "SET n += $props" leaves
MergeProps(old, new) ==
    [k \in DOMAIN old \cup DOMAIN new |-> IF k \in DOMAIN new THEN new[k] ELSE old[k]]

\* the property map holds every key of filter with the same value
MatchesProps(props, filter) ==
    \A k \in DOMAIN filter : k \in DOMAIN props /\ props[k] = filter[k]

ToSet(seq) == {seq[i] : i \in 1..Len(seq)}

\* the pattern (n:labels) WHERE n.k = $k ...: the node carries every label
\* and every filtered property
MatchesNode(n, labels, filter_arguments) ==
    /\ ToSet(labels) \subseteq n.labels
    /\ MatchesProps(n.props, filter_arguments)

\* get_node's query: MATCH (n:labels) WHERE n.k = $k ...: the positions of
\* the nodes the pattern matches
NodeMatches(g, labels, filter_arguments) ==
    {i \in 1..Len(g.nodes) : MatchesNode(g.nodes[i], labels, filter_arguments)}

\* the positions of the nodes whose id property is id
NodesWithId(g, id) ==
    {i \in 1..Len(g.nodes) : MatchesProps(g.nodes[i].props, [id |-> id])}

Min(S) == CHOOSE x \in S : \A y \in S : x <= y

\* what "RETURN n LIMIT 1" may return: any one match, or 0 for no record
GetNodePicks(g, labels, filter_arguments) ==
    IF NodeMatches(g, labels, filter_arguments) = {} THEN {0}
    ELSE NodeMatches(g, labels, filter_arguments)

\* update_labels_query: MATCH (n {id: $id}) REMOVE n:old_labels SET n:labels
RunUpdateLabels(g, id, old_labels, labels) ==
    [g EXCEPT !.nodes =
        [i \in 1..Len(g.nodes) |->
            IF MatchesProps(g.nodes[i].props, [id |-> id])
            THEN [g.nodes[i] EXCEPT !.labels = (@ \ old_labels) \cup ToSet(labels)]
            ELSE g.nodes[i]]]

\* update_props_query: MATCH (n:labels {id: $id}) SET n += $props
RunUpdateProps(g, labels, properties) ==
    [g EXCEPT !.nodes =
        [i \in 1..Len(g.nodes) |->
            IF MatchesNode(g.nodes[i], labels, [id |-> properties.id])
            THEN [g.nodes[i] EXCEPT !.props = MergeProps(@, properties)]
            ELSE g.nodes[i]]]

\* properties["name"] = properties.get("name", properties["id"].split(":")[-1])
\* and create_query: CREATE (n:labels $props)
RunCreate(g, labels, properties) ==
    LET named == IF "name" \in DOMAIN properties THEN properties
                 ELSE MergeProps(properties, [name |-> SplitLast(properties.id, ":")])
    IN  [g EXCEPT !.nodes = Append(@, [labels |-> ToSet(labels), props |-> named])]

\* create_node, get_node having returned the node at position existing_node
\* (0: None)
CreateNodeAt(g, labels, properties, existing_node) ==
    IF existing_node # 0
    THEN IF Rejects(g) THEN Rejected(g)
         ELSE LET g1 == Answered(RunUpdateLabels(g, properties.id,
                                                 g.nodes[existing_node].labels, labels))
              IN  IF Rejects(g1) THEN Rejected(g1)
                  ELSE Answered(RunUpdateProps(g1, labels, properties))
    ELSE IF Rejects(g) THEN Rejected(g)
    ELSE Answered(RunCreate(g, labels, properties))

\* create_node, with the first match standing for the record LIMIT 1 returns
CreateNode(g, labels, properties) ==
    IF g.raised THEN g
    ELSE IF Rejects(g) THEN Raised(g)
    ELSE CreateNodeAt(Answered(g), labels, properties,
                      Min(GetNodePicks(g, labels, [id |-> properties.id])))

\* get_relationship that finds no edge
RelationshipMatches_FindsNone(g, start_id, end_id, rel_label, properties) == {}

\* get_relationship's query: the positions of the edges with the label
\* between nodes with the two ids that carry every given property
RelationshipMatches(g, start_id, end_id, rel_label, properties) ==
    {i \in 1..Len(g.edges) :
        /\ g.edges[i].label = rel_label
        /\ MatchesProps(g.nodes[g.edges[i].start].props, [id |-> start_id])
        /\ MatchesProps(g.nodes[g.edges[i].end].props, [id |-> end_id])
        /\ MatchesProps(g.edges[i].props, properties)}

\* label_from_id
LabelFromId(node_id) ==
    LET prefix == SplitFirst(node_id, ":")
    IN  IF prefix = "class" THEN "Class"
        ELSE IF prefix = "method" THEN "Method"
        ELSE IF prefix = "file" THEN "File"
        ELSE Capitalize(prefix)

RECURSIVE AppendAll(_, _)
AppendAll(seq, S) ==
    IF S = {} THEN seq
    ELSE LET x == CHOOSE y \in S : TRUE IN AppendAll(Append(seq, x), S \ {x})

\* the CREATE of create_node_and_relationship: one edge for every pair of
\* a start node and an end node the MATCH finds
CreateEdges(g, start_id, end_id, rel_label, properties) ==
    LET starts == NodeMatches(g, <<LabelFromId(start_id)>>, [id |-> start_id])
        ends == NodeMatches(g, <<LabelFromId(end_id)>>, [id |-> end_id])
    IN  [g EXCEPT !.edges =
            AppendAll(@, {[start |-> a, end |-> b, label |-> rel_label,
                           props |-> properties] : a \in starts, b \in ends})]

\* the part of create_node_and_relationship after the two create_node calls
CheckAndCreateEdges(g, start_id, end_id, rel_label, properties) ==
    IF g.raised THEN g
    ELSE IF Rejects(g) THEN Raised(g)
    ELSE IF RelationshipMatches(g, start_id, end_id, rel_label, properties) # {}
    THEN Answered(g)
    ELSE IF Rejects(Answered(g)) THEN Rejected(g)
    ELSE Answered(CreateEdges(Answered(g), start_id, end_id, rel_label, properties))

\* create_node_and_relationship, the two get_node calls having returned the
\* nodes at the positions pick_start and pick_end
CreateNodeAndRelationshipAt(g, start_id, end_id, rel_label, properties, pick_start, pick_end) ==
    LET g1 == CreateNodeAt(g, <<LabelFromId(start_id)>>, [id |-> start_id], pick_start)
        g2 == CreateNodeAt(g1, <<LabelFromId(end_id)>>, [id |-> end_id], pick_end)
    IN  CheckAndCreateEdges(g2, start_id, end_id, rel_label, properties)

\* create_node_and_relationship, first matches standing for the LIMIT 1 records
CreateNodeAndRelationship(g, start_id, end_id, rel_label, properties) ==
    LET g1 == CreateNode(g, <<LabelFromId(start_id)>>, [id |-> start_id])
        g2 == CreateNode(g1, <<LabelFromId(end_id)>>, [id |-> end_id])
    IN  CheckAndCreateEdges(g2, start_id, end_id, rel_label, properties)

\* delete_all_nodes: MATCH (n) DETACH DELETE n
DeleteAllNodes(g) == [g EXCEPT !.nodes = <<>>, !.edges = <<>>]

(***************************************************************************)
(* Specification SpecDB: one caller making create_node,                    *)
(* create_node_and_relationship and delete_all_nodes calls on a GraphDB    *)
(* whose graph starts empty.  hist counts the calls and records the last.  *)
(***************************************************************************)
MaxCalls == 3

DBIds == {"class:A", "method:f"}

DBLabelLists == {<<"Class">>, <<"Method">>}

DBNodeProps == {[id |-> i] : i \in DBIds} \cup {[id |-> i, name |-> "n"] : i \in DBIds}

DBRelProperties == {<<>>, [weight |-> 1]}

ParserVars == <<nodes, relationships, processed_nodes, ret, held, last>>

ParserIdleInit ==
    /\ nodes = InitParser.nodes
    /\ relationships = InitParser.relationships
    /\ processed_nodes = InitParser.processed_nodes
    /\ ret = NoReturn
    /\ held = NotHeld
    /\ last = "init"

InitDB ==
    /\ ParserIdleInit
    /\ store = StoreInit
    /\ sig = SigInit
    /\ workers = <<>>
    /\ hist = [calls |-> 0, op |-> "none", existed |-> FALSE, before |-> StoreInit]

\* create_node(labels, properties)
DBCreateNode ==
    /\ hist.calls < MaxCalls
    /\ \E labels \in DBLabelLists, properties \in DBNodeProps :
         \E pick \in GetNodePicks(store, labels, [id |-> properties.id]) :
            /\ store' = CreateNodeAt(store, labels, properties, pick)
            /\ hist' = [calls |-> hist.calls + 1, op |-> "create_node",
                        existed |-> NodesWithId(store, properties.id) # {},
                        before |-> store]
    /\ UNCHANGED <<ParserVars, sig, workers>>

\* the (start_id, end_id, label) triples of the edges of a graph, one per edge
Triple(g, i) ==
    <<g.nodes[g.edges[i].start].props.id, g.nodes[g.edges[i].end].props.id,
      g.edges[i].label>>

Triples(g) == {Triple(g, i) : i \in 1..Len(g.edges)}

\* create_node_and_relationship(start_id, end_id, "DEFINED_IN", properties)
DBCreateNodeAndRelationship ==
    /\ hist.calls < MaxCalls
    /\ \E start_id \in DBIds, end_id \in DBIds, properties \in DBRelProperties :
         \E pick_start \in GetNodePicks(store, <<LabelFromId(start_id)>>, [id |-> start_id]) :
           \E pick_end \in GetNodePicks(
                   CreateNodeAt(store, <<LabelFromId(start_id)>>, [id |-> start_id],
                                pick_start),
                   <<LabelFromId(end_id)>>, [id |-> end_id]) :
              /\ store' = CreateNodeAndRelationshipAt(store, start_id, end_id, "DEFINED_IN",
                                                      properties, pick_start, pick_end)
              /\ hist' = [calls |-> hist.calls + 1, op |-> "create_node_and_relationship",
                          existed |-> <<start_id, end_id, "DEFINED_IN">> \in Triples(store),
                          before |-> store]
    /\ UNCHANGED <<ParserVars, sig, workers>>

\* delete_all_nodes()
DBDeleteAllNodes ==
    /\ hist.calls < MaxCalls
    /\ store' = DeleteAllNodes(store)
    /\ hist' = [calls |-> hist.calls + 1, op |-> "delete_all_nodes", existed |-> FALSE,
                before |-> store]
    /\ UNCHANGED <<ParserVars, sig, workers>>

NextDB == DBCreateNode \/ DBCreateNodeAndRelationship \/ DBDeleteAllNodes

SpecDB == InitDB /\ [][NextDB]_vars

(***************************************************************************)
(* C6.  After any sequence of create_node and create_node_and_relationship *)
(* calls the store holds at most one node per id, whatever label lists the *)
(* calls passed.                                                           *)
(***************************************************************************)
C6_OneNodePerId ==
    \A i, j \in 1..Len(store.nodes) :
        store.nodes[i].props.id = store.nodes[j].props.id => i = j

(***************************************************************************)
(* C7.  create_node_and_relationship adds no edge when the store already   *)
(* has an edge with the same (start_id, end_id, label), whatever           *)
(* properties are passed: the store never holds two edges with one triple. *)
(* Stated for the stores in which every id has one node, so that a second  *)
(* edge is never the consequence of a second node.                         *)
(***************************************************************************)
C7_OneEdgePerTriple ==
    C6_OneNodePerId =>
        /\ \A i, j \in 1..Len(store.edges) :
               Triple(store, i) = Triple(store, j) => i = j
        /\ (hist.op = "create_node_and_relationship" /\ hist.existed) =>
               Len(store.edges) = Len(hist.before.edges)

(***************************************************************************)
(* C24.  create_node_and_relationship leaves every node the store already  *)
(* holds as it is, labels and properties, and adds a node only for an      *)
(* endpoint id that no node of the store has.                              *)
(***************************************************************************)
C24_ExistingNodesUntouched ==
    hist.op = "create_node_and_relationship" =>
        /\ Len(store.nodes) >= Len(hist.before.nodes)
        /\ \A i \in 1..Len(hist.before.nodes) : store.nodes[i] = hist.before.nodes[i]
        /\ \A i \in (Len(hist.before.nodes) + 1)..Len(store.nodes) :
              NodesWithId(hist.before, store.nodes[i].props.id) = {}

(***************************************************************************)
(* Specification SpecConc: NumWorkers workers, each with its own GraphDB   *)
(* object on the same Neo4j database, make the same call at the same time  *)
(* on an empty graph.  Every session.run is a transaction of its own, so   *)
(* the queries of the workers interleave; one action is one query of one   *)
(* worker together with the Python code up to its next query.  A worker    *)
(* keeps what its queries returned: existing is the position of the node   *)
(* get_node returned (0: None) and old_labels that node's labels as read.  *)
(***************************************************************************)
NumWorkers == 2

ConcTasks ==
    {[op |-> "create_node", labels |-> <<"Class">>, properties |-> [id |-> "class:A"],
      start_id |-> None, end_id |-> None, rel_label |-> None],
     [op |-> "create_node_and_relationship", labels |-> <<>>, properties |-> <<>>,
      start_id |-> "method:f", end_id |-> "class:A", rel_label |-> "DEFINED_IN"]}

WorkerInit == [phase |-> "call", pc |-> "get_node", existing |-> 0, old_labels |-> {}]

InitConc ==
    /\ ParserIdleInit
    /\ store = StoreInit
    /\ sig = SigInit
    /\ workers = [w \in 1..NumWorkers |-> WorkerInit]
    /\ \E task \in ConcTasks : hist = [task |-> task]

\* the first phase of a call: create_node is its own body,
\* create_node_and_relationship starts with create_node for the start node
PhaseOf(w) ==
    IF workers[w].phase # "call" THEN workers[w].phase
    ELSE IF hist.task.op = "create_node" THEN "node" ELSE "start"

\* the labels and properties of the create_node call a worker is in
ConcLabels(w) ==
    IF PhaseOf(w) = "node" THEN hist.task.labels
    ELSE IF PhaseOf(w) = "start" THEN <<LabelFromId(hist.task.start_id)>>
    ELSE <<LabelFromId(hist.task.end_id)>>

ConcProperties(w) ==
    IF PhaseOf(w) = "node" THEN hist.task.properties
    ELSE IF PhaseOf(w) = "start" THEN [id |-> hist.task.start_id]
    ELSE [id |-> hist.task.end_id]

\* where a worker goes when its create_node call returns
AfterCreateNode(w) ==
    IF PhaseOf(w) = "node" THEN [workers[w] EXCEPT !.phase = "node", !.pc = "done"]
    ELSE IF PhaseOf(w) = "start"
         THEN [workers[w] EXCEPT !.phase = "end", !.pc = "get_node"]
    ELSE [workers[w] EXCEPT !.phase = "rel", !.pc = "get_relationship"]

\* existing_node = self.get_node(labels, filters)
ConcGetNode(w) ==
    /\ workers[w].pc = "get_node"
    /\ \E pick \in GetNodePicks(store, ConcLabels(w), [id |-> ConcProperties(w).id]) :
         workers' = [workers EXCEPT ![w] =
                        [phase |-> PhaseOf(w),
                         pc |-> IF pick # 0 THEN "update_labels" ELSE "create",
                         existing |-> pick,
                         old_labels |-> IF pick # 0 THEN store.nodes[pick].labels ELSE {}]]
    /\ UNCHANGED <<ParserVars, store, sig, hist>>

\* session.run(update_labels_query, id=properties["id"])
ConcUpdateLabels(w) ==
    /\ workers[w].pc = "update_labels"
    /\ store' = RunUpdateLabels(store, ConcProperties(w).id, workers[w].old_labels,
                                ConcLabels(w))
    /\ workers' = [workers EXCEPT ![w].pc = "update_props"]
    /\ UNCHANGED <<ParserVars, sig, hist>>

\* session.run(update_props_query, id=properties["id"], props=properties); return
ConcUpdateProps(w) ==
    /\ workers[w].pc = "update_props"
    /\ store' = RunUpdateProps(store, ConcLabels(w), ConcProperties(w))
    /\ workers' = [workers EXCEPT ![w] = AfterCreateNode(w)]
    /\ UNCHANGED <<ParserVars, sig, hist>>

\* session.run(create_query, props=properties)
ConcCreate(w) ==
    /\ workers[w].pc = "create"
    /\ store' = RunCreate(store, ConcLabels(w), ConcProperties(w))
    /\ workers' = [workers EXCEPT ![w] = AfterCreateNode(w)]
    /\ UNCHANGED <<ParserVars, sig, hist>>

\* existing_rel = self.get_relationship(...); if existing_rel is not None: return
ConcGetRelationship(w) ==
    /\ workers[w].pc = "get_relationship"
    /\ workers' = [workers EXCEPT ![w].pc =
                      IF RelationshipMatches(store, hist.task.start_id, hist.task.end_id,
                                             hist.task.rel_label, hist.task.properties) # {}
                      THEN "done" ELSE "create_relationship"]
    /\ UNCHANGED <<ParserVars, store, sig, hist>>

\* session.run(query, start_id=start_id, end_id=end_id, props=properties)
ConcCreateRelationship(w) ==
    /\ workers[w].pc = "create_relationship"
    /\ store' = CreateEdges(store, hist.task.start_id, hist.task.end_id,
                            hist.task.rel_label, hist.task.properties)
    /\ workers' = [workers EXCEPT ![w].pc = "done"]
    /\ UNCHANGED <<ParserVars, sig, hist>>

NextConc ==
    \E w \in 1..NumWorkers :
        \/ ConcGetNode(w)
        \/ ConcUpdateLabels(w)
        \/ ConcUpdateProps(w)
        \/ ConcCreate(w)
        \/ ConcGetRelationship(w)
        \/ ConcCreateRelationship(w)

SpecConc == InitConc /\ [][NextConc]_vars

AllDone == \A w \in 1..NumWorkers : workers[w].pc = "done"

(***************************************************************************)
(* C8.  When the workers have all returned from upserting the same node id *)
(* (the same relationship triple) into the empty graph, the graph holds    *)
(* exactly one node with every id the call names and, for the              *)
(* relationship call, exactly one edge with the triple.                    *)
(***************************************************************************)
C8_ConcurrentUpsertsAtomic ==
    AllDone =>
        IF hist.task.op = "create_node"
        THEN Cardinality(NodesWithId(store, hist.task.properties.id)) = 1
        ELSE /\ Cardinality(NodesWithId(store, hist.task.start_id)) = 1
             /\ Cardinality(NodesWithId(store, hist.task.end_id)) = 1
             /\ Cardinality({i \in 1..Len(store.edges) :
                    Triple(store, i) = <<hist.task.start_id, hist.task.end_id,
                                         hist.task.rel_label>>}) = 1

(***************************************************************************)
(* signature_based_rag/src/service/python_code_parser.py: the              *)
(* PythonCodeParser that writes every node and relationship to the graph   *)
(* through GraphDB while it walks.  The helpers take and return            *)
(* st = [processed_nodes, imports, store, raised, submitted]: submitted    *)
(* lists the create_node and _add_relationship calls the walker has made.  *)
(***************************************************************************)
\* _extract_parameters of this parser: identifiers and typed_parameter
SigExtractParameters(node) ==
    ParamsOfAll(ChildrenOfType(node, "parameters"), "typed_parameter")

\* _add_relationship
SigAddRelationship(st, start_id, end_id, label, properties) ==
    IF st.raised THEN st
    ELSE Then(CreateNodeAndRelationship(st.store, start_id, end_id, label, properties),
              LAMBDA g :
                  [st EXCEPT !.store = g, !.raised = g.raised,
                             !.submitted = Append(@, <<"relationship", start_id, end_id,
                                                       label>>)])

\* self.graph_db.create_node(labels, properties)
\* self.processed_nodes.add(properties["id"])
SigCreateNode(st, labels, properties) ==
    Then(CreateNode(st.store, labels, properties),
         LAMBDA g :
             [st EXCEPT !.store = g, !.raised = g.raised,
                        !.submitted = Append(@, <<"node", properties.id>>),
                        !.processed_nodes = IF g.raised THEN @ ELSE @ \cup {properties.id}])

\* _handle_module
SigHandleModule(st, node, file_path, file_name) ==
    LET node_id == "file:" \o file_name
        properties == [id |-> node_id, name |-> file_name, description |-> "",
                       file_path |-> file_path, code_block |-> node.text]
    IN  IF node_id \notin st.processed_nodes
        THEN SigCreateNode(st, <<"File">>, properties)
        ELSE st

\* _handle_class_definition: the state after it and the id it returns
SigHandleClassDefinition(st, node, file_path, parent_id) ==
    LET class_name == ExtractIdentifier(node)
        node_id == "class:" \o class_name
        properties == [id |-> node_id, name |-> class_name, description |-> "",
                       file_path |-> file_path,
                       base_classes |-> ExtractBaseClasses(node),
                       code_block |-> node.text]
        parent == IF Truthy(parent_id) THEN parent_id ELSE "file:" \o PathName(file_path)
    IN  IF ~Truthy(class_name) THEN [st |-> st, id |-> None]
        ELSE IF node_id \notin st.processed_nodes
        THEN [st |-> Then(SigCreateNode(st, <<"Class">>, properties),
                          LAMBDA created :
                              SigAddRelationship(created, node_id, parent, "DEFINED_IN",
                                                 EmptyProps)),
              id |-> node_id]
        ELSE [st |-> st, id |-> node_id]

\* _handle_function_definition: the state after it and the id it returns
SigHandleFunctionDefinition(st, node, file_path, parent_id) ==
    LET func_name == ExtractIdentifier(node)
        node_id == "method:" \o func_name
        is_async == Len(ChildrenOfType(node, "async")) > 0
        properties == [id |-> node_id, name |-> func_name, description |-> "",
                       file_path |-> file_path,
                       method_type |-> IF is_async THEN "async" ELSE "sync",
                       parameters |-> SigExtractParameters(node),
                       code_block |-> node.text]
        parent == IF Truthy(parent_id) THEN parent_id ELSE "file:" \o PathName(file_path)
    IN  IF ~Truthy(func_name) THEN [st |-> st, id |-> None]
        ELSE IF node_id \notin st.processed_nodes
        THEN [st |-> Then(SigCreateNode(st, <<"Method">>, properties),
                          LAMBDA created :
                              SigAddRelationship(created, node_id, parent, "DEFINED_IN",
                                                 EmptyProps)),
              id |-> node_id]
        ELSE [st |-> st, id |-> node_id]

\* _collect_import
SigCollectImport(st, node) ==
    LET import_info == Strip(node.text)
    IN  IF import_info # "" THEN [st EXCEPT !.imports = Append(@, import_info)] ELSE st

\* _create_import_node
SigCreateImportNode(st, file_path) ==
    LET file_name == PathName(file_path)
        import_id == "import:" \o file_name
        properties == [id |-> import_id, name |-> "imports",
                       description |-> "All imports for " \o file_name,
                       file_path |-> file_path,
                       code_block |-> JoinWith("\n", st.imports)]
    IN  IF Len(st.imports) = 0 THEN st
        ELSE Then(SigCreateNode(st, <<"Import">>, properties),
                  LAMBDA created :
                      SigAddRelationship(created, import_id, "file:" \o file_name,
                                         "IMPORTS_FOR", EmptyProps))

\* _handle_method_call
SigHandleMethodCall(st, node, parent_id) ==
    IF Len(node.children) = 0 THEN st
    ELSE LET method_name == ExtractMethodName(node.children[1])
         IN  IF Truthy(method_name) /\ Truthy(parent_id)
             THEN SigAddRelationship(st, "method:" \o method_name, parent_id, "CALLED_IN",
                                     EmptyProps)
             ELSE st

RECURSIVE SigParseNode(_, _, _, _, _)
RECURSIVE SigParseChildren(_, _, _, _, _, _)
\* _parse_node
SigParseNode(st, node, file_path, parent_id, depth) ==
    LET file_name == PathName(file_path)
        cls == SigHandleClassDefinition(st, node, file_path, parent_id)
        fn  == SigHandleFunctionDefinition(st, node, file_path, parent_id)
        after ==
            IF node.type = "module"
            THEN [st |-> SigHandleModule(st, node, file_path, file_name), id |-> parent_id]
            ELSE IF node.type = "class_definition" THEN cls
            ELSE IF node.type = "function_definition" THEN fn
            ELSE IF node.type \in {"import_statement", "import_from_statement"}
            THEN [st |-> SigCollectImport(st, node), id |-> parent_id]
            ELSE IF node.type = "call"
            THEN [st |-> SigHandleMethodCall(st, node, parent_id), id |-> parent_id]
            ELSE [st |-> st, id |-> parent_id]
    IN  IF depth > RecursionLimit THEN [st EXCEPT !.raised = TRUE]
        ELSE Then(after,
                  LAMBDA a :
                      IF a.st.raised THEN a.st
                      ELSE SigParseChildren(a.st, node.children, 1, file_path, a.id, depth))

\* the loop "for child in node.children" of _parse_node, from child i on
SigParseChildren(st, children, i, file_path, parent_id, depth) ==
    IF i > Len(children) THEN st
    ELSE Then(SigParseNode(st, children[i], file_path, parent_id, depth + 1),
              LAMBDA s1 :
                  IF s1.raised THEN s1
                  ELSE SigParseChildren(s1, children, i + 1, file_path, parent_id, depth))

\* reset
SigResetState(st) == [st EXCEPT !.processed_nodes = {}, !.imports = <<>>]

\* the try block of parse_file on a file that can be read: parse, reset,
\* walk from the root, then the import node; an exception in the walk
\* skips the import node
SigParseFileBody(st, f) ==
    Then(SigParseNode(SigResetState(st), TreeAt[f.items], f.path, None, 1),
         LAMBDA walked :
             IF walked.raised THEN walked ELSE SigCreateImportNode(walked, f.path))

(***************************************************************************)
(* Specification SpecSig: one streaming PythonCodeParser run on up to      *)
(* MaxPasses source units, one after the other, its GraphDB on a graph     *)
(* that starts empty.  hist keeps the units parsed so far and the graph    *)
(* as the first pass left it.                                              *)
(***************************************************************************)
MaxPasses == 2

InitSig ==
    /\ ParserIdleInit
    /\ store = StoreInit
    /\ sig = SigInit
    /\ workers = <<>>
    /\ hist = [passes |-> <<>>, first |-> StoreInit]

\* parse_file(f.path): returns None when the walk ends, two empty lists
\* when anything raised
SigParseFile(f) ==
    LET readable == f.kind = "file"
        st == SigParseFileBody([processed_nodes |-> sig.processed_nodes,
                                imports |-> sig.imports, store |-> store,
                                raised |-> FALSE, submitted |-> <<>>], f)
        \* the except clause of parse_file ends the propagation
        after == IF readable THEN [st.store EXCEPT !.raised = FALSE] ELSE store
    IN  /\ Len(hist.passes) < MaxPasses
        /\ store' = after
        /\ sig' = IF readable
                  THEN [processed_nodes |-> st.processed_nodes, imports |-> st.imports,
                        returned |-> IF st.raised THEN "empty lists" ELSE None]
                  ELSE [sig EXCEPT !.returned = "empty lists"]
        /\ hist' = [passes |-> Append(hist.passes, f),
                    first |-> IF Len(hist.passes) = 0 THEN after ELSE hist.first]
        /\ UNCHANGED <<ParserVars, workers>>

NextSig == \E f \in Files : SigParseFile(f)

SpecSig == InitSig /\ [][NextSig]_vars

\* the nodes of a graph as (labels, properties) and its relationships as
\* (start id, end id, label, properties)
NodeSet(g) == {g.nodes[i] : i \in 1..Len(g.nodes)}

RelationshipSet(g) ==
    {[start_id |-> g.nodes[g.edges[i].start].props.id,
      end_id |-> g.nodes[g.edges[i].end].props.id,
      label |-> g.edges[i].label, props |-> g.edges[i].props] : i \in 1..Len(g.edges)}

SameUnitTwice ==
    /\ Len(hist.passes) = 2
    /\ hist.passes[1] = hist.passes[2]

(***************************************************************************)
(* C9.  After the same source unit has been extracted twice into a graph   *)
(* that started empty, the graph holds the same nodes (ids, labels,        *)
(* properties) and the same relationships as after the first extraction,   *)
(* and no more of either.                                                  *)
(***************************************************************************)
C9_SecondPassChangesNothing ==
    SameUnitTwice =>
        /\ NodeSet(store) = NodeSet(hist.first)
        /\ RelationshipSet(store) = RelationshipSet(hist.first)
        /\ Len(store.nodes) = Len(hist.first.nodes)
        /\ Len(store.edges) = Len(hist.first.edges)

\* a unit with imports, definitions and calls extracted twice
C9_Witness ==
    /\ SameUnitTwice
    /\ Len(store.nodes) > 3
    /\ Len(store.edges) > 2
    /\ \E i \in 1..Len(store.nodes) : "Import" \in store.nodes[i].labels

(***************************************************************************)
(* Specification SpecFail: one pass of the streaming parser over a source  *)
(* unit, on an empty graph whose backend rejects one query of the pass,    *)
(* the fail_in-th.  hist keeps the unit, which query was rejected, what    *)
(* the walker submitted and whether parse_file's except clause ran.        *)
(***************************************************************************)
MaxFailIn == 8

InitFail ==
    /\ ParserIdleInit
    /\ store = StoreInit
    /\ sig = SigInit
    /\ workers = <<>>
    /\ hist = [passes |-> <<>>, fail_in |-> 0, submitted |-> <<>>, rejected |-> FALSE,
               aborted |-> FALSE]

\* parse_file(f.path), the backend rejecting the fail_in-th query it gets
SigParseFileRejecting(f, fail_in) ==
    LET readable == f.kind = "file"
        st == SigParseFileBody([processed_nodes |-> sig.processed_nodes,
                                imports |-> sig.imports,
                                store |-> [store EXCEPT !.fail_in = fail_in],
                                raised |-> FALSE, submitted |-> <<>>], f)
    IN  /\ hist.passes = <<>>
        /\ store' = IF readable THEN [st.store EXCEPT !.raised = FALSE, !.fail_in = 0]
                    ELSE store
        /\ sig' = IF readable
                  THEN [processed_nodes |-> st.processed_nodes, imports |-> st.imports,
                        returned |-> IF st.raised THEN "empty lists" ELSE None]
                  ELSE [sig EXCEPT !.returned = "empty lists"]
        /\ hist' = [passes |-> <<f>>, fail_in |-> fail_in,
                    submitted |-> IF readable THEN st.submitted ELSE <<>>,
                    rejected |-> readable /\ st.store.fail_in = 0,
                    aborted |-> ~readable \/ st.raised]
        /\ UNCHANGED <<ParserVars, workers>>

NextFail == \E f \in Files, fail_in \in 1..MaxFailIn : SigParseFileRejecting(f, fail_in)

SpecFail == InitFail /\ [][NextFail]_vars

\* what a pass over each readable unit submits when the backend rejects nothing
AllSubmitted ==
    [f \in {g \in Files : g.kind = "file"} |->
        SigParseFileBody([processed_nodes |-> {}, imports |-> <<>>, store |-> StoreInit,
                          raised |-> FALSE, submitted |-> <<>>], f).submitted]

(***************************************************************************)
(* C12.  When the backend rejects one query of a pass, a read of the       *)
(* existence check or a write, the pass is not aborted: the walker still   *)
(* submits every node and relationship of the unit.                        *)
(***************************************************************************)
C12_RejectedQueryDoesNotAbort ==
    hist.rejected =>
        /\ ~hist.aborted
        /\ hist.submitted = AllSubmitted[hist.passes[1]]

(***************************************************************************)
(* Specifications SpecFn and SpecRel: the helper methods of the parsers    *)
(* called on their own, with arguments drawn from bounded sets.  hist      *)
(* records the last call, its arguments and what it returned.  SpecFn      *)
(* calls _extract_parameters on function definitions; SpecRel calls        *)
(* _extract_method_name on callees, and _handle_method_call and            *)
(* _add_relationship, which act on the relationships list of the staging   *)
(* parser.                                                                 *)
(***************************************************************************)
MaxParams == 4

ParamShapes == {"plain", "typed", "default"}

ParamLists == UNION {[1..n -> ParamShapes] : n \in 0..MaxParams}

ParamName(i) == Char("abcdefgh", i)

\* the node of the i-th parameter: a, a: int or a=3
ParamNode(shape, i) ==
    IF shape = "plain" THEN Ident(ParamName(i), 0)
    ELSE IF shape = "typed" THEN TypedParameter(ParamName(i), "int", 0)
    ELSE DefaultParameter(ParamName(i), "3", 0)

\* def m(<parameters>): pass
DefWithParams(shapes) ==
    FuncDef(FALSE, "m", [i \in 1..Len(shapes) |-> ParamNode(shapes[i], i)],
            <<PassStmt(1)>>, 0)

\* the callee nodes of:  f()  self.g()  a.b.c()  g(x.y).h()  f()()  x[0]()  (a.b)()
Callees ==
    {Ident("f", 0),
     Attribute(Ident("self", 0), "g", 0),
     Attribute(Attribute(Ident("a", 0), "b", 0), "c", 0),
     Attribute(Call(Ident("g", 0), <<Attribute(Ident("x", 0), "y", 0)>>, 0), "h", 0),
     Mk("attribute", <<Ident("a", 0), Tok(".", ".", 0), Ident("b", 0)>>, " "),
     Call(Ident("f", 0), <<>>, 0),
     Mk("subscript", <<Ident("x", 0), Tok("[", "[", 0), Tok("integer", "0", 0),
                       Tok("]", "]", 0)>>, ""),
     Mk("parenthesized_expression",
        <<Tok("(", "(", 0), Attribute(Ident("a", 0), "b", 0), Tok(")", ")", 0)>>, "")}

MaxRelationships == 2

RelStartIds == {"method:f", "method:f-DEFINED_IN-class:A"}

RelEndIds == {"class:B", "class:A-CALLED_IN-class:B"}

RelLabels == {"DEFINED_IN", "CALLED_IN"}

RelProperties == {<<>>, [weight |-> 1]}

InitFn ==
    /\ ParserIdleInit
    /\ store = StoreInit
    /\ sig = SigInit
    /\ workers = <<>>
    /\ hist = [op |-> "none"]

\* _extract_parameters(node) of both parsers
CallExtractParameters ==
    /\ \E shapes \in ParamLists :
          hist' = [op |-> "_extract_parameters", shapes |-> shapes,
                   staging |-> ExtractParameters(DefWithParams(shapes)),
                   streaming |-> SigExtractParameters(DefWithParams(shapes))]
    /\ UNCHANGED <<ParserVars, store, sig, workers>>

\* _extract_method_name(node)
CallExtractMethodName ==
    /\ \E callee \in Callees :
          hist' = [op |-> "_extract_method_name", callee |-> callee,
                   returned |-> ExtractMethodName(callee)]
    /\ UNCHANGED <<ParserVars, store, sig, workers>>

\* _handle_method_call(node, file_path, "method:m"), node the call callee()
CallHandleMethodCall ==
    /\ Len(relationships) < MaxRelationships
    /\ \E callee \in Callees :
          /\ relationships' =
                HandleMethodCall(ParserState, Call(callee, <<>>, 0), "src/a.py",
                                 "method:m").relationships
          /\ hist' = [op |-> "_handle_method_call", callee |-> callee,
                      before |-> relationships]
    /\ UNCHANGED <<nodes, processed_nodes, ret, held, last, store, sig, workers>>

\* _add_relationship(start_id, end_id, label, properties)
CallAddRelationship ==
    /\ Len(relationships) < MaxRelationships
    /\ \E start_id \in RelStartIds, end_id \in RelEndIds, label \in RelLabels,
          properties \in RelProperties :
          /\ relationships' =
                AddRelationship(ParserState, start_id, end_id, label,
                                properties).relationships
          /\ hist' = [op |-> "_add_relationship", start_id |-> start_id,
                      end_id |-> end_id, label |-> label, properties |-> properties,
                      before |-> relationships]
    /\ UNCHANGED <<nodes, processed_nodes, ret, held, last, store, sig, workers>>

NextFn == CallExtractParameters

SpecFn == InitFn /\ [][NextFn]_vars

NextRel ==
    \/ CallExtractMethodName
    \/ CallHandleMethodCall
    \/ CallAddRelationship

SpecRel == InitFn /\ [][NextRel]_vars

(***************************************************************************)
(* C15.  _extract_parameters returns the bound name of every parameter in  *)
(* declaration order, plain, typed and defaulted alike: for                *)
(* (a, b: int, c=3) exactly <<"a", "b", "c">>, in both parsers.            *)
(***************************************************************************)
C15_EveryParameterName ==
    hist.op = "_extract_parameters" =>
        /\ hist.staging = [i \in 1..Len(hist.shapes) |-> ParamName(i)]
        /\ hist.streaming = [i \in 1..Len(hist.shapes) |-> ParamName(i)]

(***************************************************************************)
(* C16.  Extracting sample.py (import os; class Foo(Base) with the async   *)
(* method run(self, timeout=5) that calls helper()) into an empty graph    *)
(* leaves exactly four nodes, file:sample.py, class:Foo with base_classes  *)
(* <<"Base">>, method:run with method_type "async" and parameters          *)
(* <<"self", "timeout">>, import:sample.py, and exactly four edges:        *)
(* class:Foo DEFINED_IN file:sample.py, method:run DEFINED_IN class:Foo,   *)
(* import:sample.py IMPORTS_FOR file:sample.py and method:helper CALLED_IN *)
(* method:run.                                                             *)
(***************************************************************************)
SampleFile == [path |-> "pkg/sample.py", kind |-> "file", items |-> <<6, 13>>]

C16_SampleScenario ==
    hist.passes = <<SampleFile>> =>
        /\ Len(store.nodes) = 4
        /\ {store.nodes[i].props.id : i \in 1..Len(store.nodes)}
              = {"file:sample.py", "class:Foo", "method:run", "import:sample.py"}
        /\ \A i \in NodesWithId(store, "class:Foo") :
              store.nodes[i].props.base_classes = <<"Base">>
        /\ \A i \in NodesWithId(store, "method:run") :
              /\ store.nodes[i].props.method_type = "async"
              /\ store.nodes[i].props.parameters = <<"self", "timeout">>
        /\ Len(store.edges) = 4
        /\ Triples(store)
              = {<<"class:Foo", "file:sample.py", "DEFINED_IN">>,
                 <<"method:run", "class:Foo", "DEFINED_IN">>,
                 <<"import:sample.py", "file:sample.py", "IMPORTS_FOR">>,
                 <<"method:helper", "method:run", "CALLED_IN">>}

(***************************************************************************)
(* C18.  _add_relationship never stages two relationships with the same    *)
(* (start id, end id, label): a call whose triple is already staged        *)
(* appends nothing, whatever properties it passes, and a call whose triple *)
(* is not yet staged appends exactly one relationship, the one it was      *)
(* given.                                                                  *)
(***************************************************************************)
TripleOf(r) == <<r.start.id, r.end.id, r.label>>

C18_OneRelationshipPerTriple ==
    /\ \A i, j \in 1..Len(relationships) :
           TripleOf(relationships[i]) = TripleOf(relationships[j]) => i = j
    /\ hist.op = "_add_relationship" =>
           IF \E i \in 1..Len(hist.before) :
                  TripleOf(hist.before[i]) = <<hist.start_id, hist.end_id, hist.label>>
           THEN relationships = hist.before
           ELSE relationships =
                    Append(hist.before,
                           [type |-> "relationship", start |-> [id |-> hist.start_id],
                            end |-> [id |-> hist.end_id], label |-> hist.label,
                            properties |-> hist.properties])

(***************************************************************************)
(* C20.  _extract_method_name returns the text of an identifier callee and *)
(* the trailing name of an attribute callee (what follows its last "."),   *)
(* and None for every other callee; for such a callee _handle_method_call  *)
(* stages nothing, for the others it stages method:<name> CALLED_IN the    *)
(* enclosing id.                                                           *)
(***************************************************************************)
\* name is what the callee's text holds after its last "."
AfterLastDot(callee, name) ==
    /\ ~Contains(name, ".")
    /\ Len(callee.text) > Len(name)
    /\ SubSeq(callee.text, Len(callee.text) - Len(name), Len(callee.text)) = "." \o name

\* name is the name the claim gives the callee
NamesCallee(callee, name) ==
    IF callee.type = "identifier" THEN name = callee.text
    ELSE IF callee.type = "attribute" THEN name # None /\ AfterLastDot(callee, name)
    ELSE name = None

C20_CalleeName ==
    /\ hist.op = "_extract_method_name" => NamesCallee(hist.callee, hist.returned)
    /\ hist.op = "_handle_method_call" =>
          IF hist.callee.type \in {"identifier", "attribute"}
          THEN \E i \in 1..Len(relationships) :
                  LET r == relationships[i]
                  IN  /\ r.label = "CALLED_IN"
                      /\ r.end.id = "method:m"
                      /\ SubSeq(r.start.id, 1, 7) = "method:"
                      /\ NamesCallee(hist.callee, SubSeq(r.start.id, 8, Len(r.start.id)))
          ELSE relationships = hist.before

\* _handle_method_call has run on a call whose callee is neither an
\* identifier nor an attribute, with a relationship staged before it
C20_Witness ==
    /\ hist.op = "_handle_method_call"
    /\ hist.callee.type \notin {"identifier", "attribute"}
    /\ Len(hist.before) > 0
    /\ relationships = hist.before

====
